---- MODULE Spec2Model ----
(***************************************************************************)
(* FitCRM: the client record store of js/main.js, its form, list, search   *)
(* and detail handlers, and the asynchronous exercise fetch.               *)
(*                                                                         *)
(* Strings are sequences of one-character strings, so that trimming,       *)
(* lower-casing, substring search and the e-mail pattern are computed.     *)
(* The handlers are global functions bound by inline onclick attributes;   *)
(* each is one atomic action (the page is single threaded), and may be     *)
(* invoked in any state with any argument of the bounded input sets.       *)
(***************************************************************************)
EXTENDS Integers, Sequences, FiniteSets, TLC

VARIABLES
    localStorage,       \* the browser's localStorage: <<key, JSON text>> pairs
    now,                \* the value Date.now() returns
    page,               \* the one .page element that is not hidden
    formId,             \* value of the hidden #client-id input of the form
    validationMessage,  \* text of #validation-message
    searchInput,        \* value of the #clientSearch input
    rows,               \* the rows of #client-table-body, in order
    tableHidden,        \* #client-table hidden, #no-clients-message shown
    detail,             \* the fields displayed on the detail page
    exerciseList,       \* content of #suggested-exercises
    fetches,            \* the calls of fetchSuggestedExercises, in issue order
    last                \* the last handler run: its name, whether its id
                        \* argument matched a stored record, whether it
                        \* passed its check, and the alert() it raised

vars == <<localStorage, now, page, formId, validationMessage, searchInput, rows,
          tableHidden, detail, exerciseList, fetches, last>>

----------------------------------------------------------------------------
(* Bounds *)

MaxClients == 2

MaxClock == 2

MaxFetches == 2

----------------------------------------------------------------------------
(* Strings *)

Empty == <<>>

Str1(a) == <<a>>

Str2(a, b) == <<a, b>>

IsSpace(c) == c = " "

LowerChar(c) ==
    CASE c = "A" -> "a"
      [] c = "B" -> "b"
      [] OTHER -> c

\* String.prototype.toLowerCase
ToLowerCase(s) == [i \in 1..Len(s) |-> LowerChar(s[i])]

\* String.prototype.includes
Includes(s, sub) ==
    \E i \in 0..(Len(s) - Len(sub)) : SubSeq(s, i + 1, i + Len(sub)) = sub

Digits == <<"0", "1", "2", "3", "4", "5", "6", "7", "8", "9">>

RECURSIVE NumToString(_)
\* Number.prototype.toString, base 10, of a non-negative integer
NumToString(n) ==
    IF n < 10 THEN <<Digits[n + 1]>>
    ELSE Append(NumToString(n \div 10), Digits[(n % 10) + 1])

----------------------------------------------------------------------------
(* Local storage *)

CLIENTS_STORAGE_KEY == "fitcrm_clients"

Keys == <<"id", "fullName", "age", "gender", "email", "phone", "fitnessGoal",
          "startDate">>

RECURSIVE StringifyObject(_, _)
\* The key/value pairs of an object, from key number k on, in key order.
StringifyObject(object, k) ==
    IF k > Len(Keys) THEN <<>>
    ELSE <<<<Keys[k], object[Keys[k]]>>>> \o StringifyObject(object, k + 1)

RECURSIVE StringifyFrom(_, _)
StringifyFrom(clients, i) ==
    IF i > Len(clients) THEN <<>>
    ELSE <<StringifyObject(clients[i], 1)>> \o StringifyFrom(clients, i + 1)

\* JSON.stringify of an array of flat objects: per object, its key/value
\* pairs in order.
Stringify(clients) == StringifyFrom(clients, 1)

RECURSIVE ParseObject(_, _)
\* The object the first n of a sequence of key/value pairs denote; of two
\* pairs with one key the later one counts.
ParseObject(pairs, n) ==
    IF n = 0 THEN <<>>
    ELSE (pairs[n][1] :> pairs[n][2]) @@ ParseObject(pairs, n - 1)

RECURSIVE ParseFrom(_, _)
ParseFrom(text, i) ==
    IF i > Len(text) THEN <<>>
    ELSE <<ParseObject(text[i], Len(text[i]))>> \o ParseFrom(text, i + 1)

\* JSON.parse of such a text.
Parse(text) == ParseFrom(text, 1)

\* localStorage is a set of <<key, text>> pairs, at most one per key.
HasItem(ls, key) == \E p \in ls : p[1] = key

GetItem(ls, key) == (CHOOSE p \in ls : p[1] = key)[2]

SetItem(ls, key, text) == {p \in ls : p[1] # key} \cup {<<key, text>>}

\* getClients(), reading storage ls
GetClientsOf(ls) ==
    IF HasItem(ls, CLIENTS_STORAGE_KEY)
    THEN Parse(GetItem(ls, CLIENTS_STORAGE_KEY))
    ELSE <<>>

GetClients == GetClientsOf(localStorage)

\* saveClients(clients): the storage it leaves
SaveClients(ls, clients) == SetItem(ls, CLIENTS_STORAGE_KEY, Stringify(clients))

----------------------------------------------------------------------------
(* Form validation *)

MsgRequired == "Error: Full Name, Email, and Start Date are required."

MsgEmail == "Error: Invalid email format."

NotSpaceOrAt(s, lo, hi) ==
    \A k \in lo..hi : ~IsSpace(s[k]) /\ s[k] # "@"

\* /^[^\s@]+@[^\s@]+\.[^\s@]+$/.test(s)
EmailRegexTest(s) ==
    \E i \in 2..Len(s) : \E j \in (i + 2)..(Len(s) - 1) :
        /\ s[i] = "@"
        /\ s[j] = "."
        /\ NotSpaceOrAt(s, 1, i - 1)
        /\ NotSpaceOrAt(s, i + 1, j - 1)
        /\ NotSpaceOrAt(s, j + 1, Len(s))

\* !value of a string
Falsy(s) == s = Empty

\* ValidateFormData with the pattern check left out.
ValidateFormDataNoPattern(data) ==
    IF Falsy(data.fullName) \/ Falsy(data.email) \/ Falsy(data.startDate)
    THEN [ok |-> FALSE, message |-> MsgRequired]
    ELSE [ok |-> TRUE, message |-> ""]

ValidateFormData(data) ==
    IF Falsy(data.fullName) \/ Falsy(data.email) \/ Falsy(data.startDate)
    THEN [ok |-> FALSE, message |-> MsgRequired]
    ELSE IF ~EmailRegexTest(data.email)
    THEN [ok |-> FALSE, message |-> MsgEmail]
    ELSE [ok |-> TRUE, message |-> ""]

----------------------------------------------------------------------------
(* Client list rendering *)

\* FilterClients with the filter compared as typed.
FilterClientsCaseSensitive(clients, filter) ==
    SelectSeq(clients,
        LAMBDA client : Includes(ToLowerCase(client.fullName), filter))

FilterClients(clients, filter) ==
    SelectSeq(clients,
        LAMBDA client : Includes(ToLowerCase(client.fullName), ToLowerCase(filter)))

\* The table renderClientList(filter) leaves, having read clients.
RenderClients(clients, filter) ==
    IF Len(clients) = 0
    THEN [rows |-> <<>>, tableHidden |-> TRUE]
    ELSE [rows |-> FilterClients(clients, filter), tableHidden |-> FALSE]

\* renderClientList(filter) on storage ls
RenderClientList(ls, filter) == RenderClients(GetClientsOf(ls), filter)

ShowTable(table) ==
    /\ rows' = table.rows
    /\ tableHidden' = table.tableHidden

ShowForm(form) ==
    /\ validationMessage' = form.validationMessage
    /\ formId' = form.formId

\* setupFormMode(mode): the message and hidden id it leaves.
SetupFormMode(mode, id) ==
    [validationMessage |-> "", formId |-> IF mode = "new" THEN Empty ELSE id]

\* navigateTo(pageName, mode), called with storage ls, hidden id `id` and
\* validation message msg in place.
NavigateTo(pageName, mode, ls, id, msg) ==
    /\ page' = pageName
    /\ IF pageName = "list"
       THEN ShowTable(RenderClientList(ls, Empty))
       ELSE UNCHANGED <<rows, tableHidden>>
    /\ IF pageName = "form"
       THEN ShowForm(SetupFormMode(mode, id))
       ELSE /\ validationMessage' = msg
            /\ formId' = id

----------------------------------------------------------------------------
(* Store updates of the handlers *)

HasId(clients, id) == \E i \in 1..Len(clients) : clients[i].id = id

\* Array.prototype.find by id: the first match
FindById(clients, id) ==
    clients[CHOOSE i \in 1..Len(clients) :
                /\ clients[i].id = id
                /\ \A j \in 1..(i - 1) : clients[j].id # id]

\* UpdateClients that removes the record and pushes its replacement.
UpdateClientsMoveLast(clients, clientData) ==
    Append(SelectSeq(clients, LAMBDA client : client.id # clientData.id),
           clientData)

\* clients.map(client => client.id === clientData.id ? clientData : client)
UpdateClients(clients, clientData) ==
    [i \in 1..Len(clients) |->
        IF clients[i].id = clientData.id THEN clientData ELSE clients[i]]

\* clientData.id = Date.now().toString(); clients.push(clientData)
AddClient(clients, clientData, t) ==
    Append(clients, [clientData EXCEPT !.id = NumToString(t)])

\* RemoveClient as splice(findIndex(...), 1): index -1 cuts the last record.
RemoveClientBySplice(clients, clientId) ==
    LET at == IF \E i \in 1..Len(clients) : clients[i].id = clientId
              THEN CHOOSE i \in 1..Len(clients) :
                       /\ clients[i].id = clientId
                       /\ \A j \in 1..(i - 1) : clients[j].id # clientId
              ELSE Len(clients)
    IN [i \in 1..(IF Len(clients) = 0 THEN 0 ELSE Len(clients) - 1) |->
           IF i < at THEN clients[i] ELSE clients[i + 1]]

\* clients.filter(client => client.id !== clientId)
RemoveClient(clients, clientId) ==
    SelectSeq(clients, LAMBDA client : client.id # clientId)

Ran(op, hit, ok, alert) == [op |-> op, hit |-> hit, ok |-> ok, alert |-> alert]

----------------------------------------------------------------------------
(* Handlers *)

\* The clock advances between two events.
Tick ==
    /\ now < MaxClock
    /\ now' = now + 1
    /\ last' = Ran("tick", FALSE, FALSE, "none")
    /\ UNCHANGED <<localStorage, page, formId, validationMessage, searchInput,
                   rows, tableHidden, detail, exerciseList, fetches>>

\* A navigation button: navigateTo('list') or navigateTo('form', 'new').
Navigate(pageName, mode) ==
    /\ NavigateTo(pageName, mode, localStorage, formId, validationMessage)
    /\ last' = Ran("navigate", FALSE, FALSE, "none")
    /\ UNCHANGED <<localStorage, now, searchInput, detail, exerciseList, fetches>>

\* saveClients(saved); alert(...); navigateTo('list')
SaveAndList(stored) ==
    /\ localStorage' = stored
    /\ NavigateTo("list", "none", stored, formId, "")

\* handleFormSubmit from validateFormData on: clientData is the form data,
\* valid the validation's result, clients what getClients() returns.
SubmitClientData(clientData, valid, clients) ==
    IF ~valid.ok
    THEN /\ validationMessage' = valid.message
         /\ last' = Ran("submit", FALSE, FALSE, "none")
         /\ UNCHANGED <<localStorage, now, page, formId, searchInput, rows,
                        tableHidden, detail, exerciseList, fetches>>
    ELSE IF ~Falsy(clientData.id)
    THEN /\ SaveAndList(SaveClients(localStorage,
                                    UpdateClients(clients, clientData)))
         /\ last' = Ran("submit", HasId(clients, clientData.id), TRUE, "updated")
         /\ UNCHANGED <<now, searchInput, detail, exerciseList, fetches>>
    ELSE /\ Len(clients) < MaxClients
         /\ SaveAndList(SaveClients(localStorage,
                                    AddClient(clients, clientData, now)))
         /\ last' = Ran("submit", FALSE, TRUE, "added")
         /\ UNCHANGED <<now, searchInput, detail, exerciseList, fetches>>

\* What getFormData(form) returns: the values of the visible inputs, and
\* the value of the hidden client-id input.
GetFormData(fields) == [fields EXCEPT !.id = formId]

\* handleFormSubmit: fields are the values of the visible inputs at submit
\* time.
HandleFormSubmit(fields) ==
    SubmitClientData(GetFormData(fields), ValidateFormData(GetFormData(fields)),
                     GetClients)

\* handleSearch(query): renders with the query given, or, given none, with
\* the text of the search input.
HandleSearch(hasQuery, query, input) ==
    /\ searchInput' = input
    /\ ShowTable(RenderClientList(localStorage,
                                  IF hasQuery THEN query ELSE input))
    /\ last' = Ran("search", FALSE, TRUE, "none")
    /\ UNCHANGED <<localStorage, now, page, formId, validationMessage, detail,
                   exerciseList, fetches>>

\* A key released in the search input, which then reads q.
SearchKeyup(q, hasQuery) == HandleSearch(hasQuery, q, q)

\* The search button.
SearchClick == HandleSearch(FALSE, Empty, searchInput)

\* handleEdit once getClients() has returned clients
EditAmong(clients, clientId) ==
    IF ~HasId(clients, clientId)
    THEN /\ last' = Ran("edit", FALSE, FALSE, "none")
         /\ UNCHANGED <<localStorage, now, page, formId, validationMessage,
                        searchInput, rows, tableHidden, detail, exerciseList,
                        fetches>>
    ELSE /\ NavigateTo("form", "edit", localStorage, FindById(clients, clientId).id,
                       validationMessage)
         /\ last' = Ran("edit", TRUE, TRUE, "none")
         /\ UNCHANGED <<localStorage, now, searchInput, detail, exerciseList,
                        fetches>>

HandleEdit(clientId) == EditAmong(GetClients, clientId)

\* saveClients(clients); renderClientList()
SaveAndRender(stored) ==
    /\ localStorage' = stored
    /\ ShowTable(RenderClientList(stored, Empty))

\* handleDelete once confirm() has answered and getClients() has returned
\* clients
DeleteAmong(clients, clientId, confirmed) ==
    IF ~confirmed
    THEN /\ last' = Ran("delete", HasId(clients, clientId), FALSE, "none")
         /\ UNCHANGED <<localStorage, now, page, formId, validationMessage,
                        searchInput, rows, tableHidden, detail, exerciseList,
                        fetches>>
    ELSE /\ SaveAndRender(SaveClients(localStorage,
                                      RemoveClient(clients, clientId)))
         /\ last' = Ran("delete", HasId(clients, clientId), TRUE, "deleted")
         /\ UNCHANGED <<now, page, formId, validationMessage, searchInput, detail,
                        exerciseList, fetches>>

\* handleDelete(clientId, clientName); confirmed is the answer to confirm().
HandleDelete(clientId, confirmed) == DeleteAmong(GetClients, clientId, confirmed)

----------------------------------------------------------------------------
(* Detail page and exercise suggestions *)

NotAvailable == <<"N", "/", "A">>

\* value || 'N/A'
OrNotAvailable(s) == IF Falsy(s) THEN NotAvailable ELSE s

Item(kind, name, text) == [kind |-> kind, name |-> name, text |-> text]

LoadingList == <<Item("loading", Empty, Empty)>>

ErrorList == <<Item("error", Empty, Empty)>>

NoneFoundList == <<Item("none", Empty, Empty)>>

PreviewLength == 100

RECURSIVE StripFrom(_, _, _)
\* s.replace(/<[^>]*>?/gm, '') from position i on; inTag: a '<' is open
StripFrom(s, i, inTag) ==
    IF i > Len(s) THEN <<>>
    ELSE IF inTag THEN StripFrom(s, i + 1, s[i] # ">")
    ELSE IF s[i] = "<" THEN StripFrom(s, i + 1, TRUE)
    ELSE <<s[i]>> \o StripFrom(s, i + 1, FALSE)

StripTags(s) == StripFrom(s, 1, FALSE)

\* s.substring(0, n)
Substring0(s, n) == SubSeq(s, 1, IF Len(s) < n THEN Len(s) ELSE n)

\* The list the success path leaves for a parsed body; reading the
\* description of an exercise that has none throws into the catch block.
RenderExercises(data) ==
    IF data.hasResults /\ Len(data.results) > 0
    THEN IF \E i \in 1..Len(data.results) : ~data.results[i].hasDescription
         THEN ErrorList
         ELSE [i \in 1..Len(data.results) |->
                 Item("exercise", data.results[i].name,
                      Substring0(StripTags(data.results[i].description),
                                 PreviewLength) \o <<".", ".", ".">>)]
    ELSE NoneFoundList

\* handleView from the display of the details on
DisplayClient(client) ==
    /\ Len(fetches) < MaxFetches
    /\ detail' = [fullName |-> client.fullName,
                  email |-> client.email,
                  phone |-> OrNotAvailable(client.phone),
                  goal |-> client.fitnessGoal,
                  startDate |-> client.startDate,
                  age |-> OrNotAvailable(client.age),
                  gender |-> OrNotAvailable(client.gender)]
    \* fetchSuggestedExercises() up to its first await
    /\ exerciseList' = LoadingList
    /\ fetches' = Append(fetches, [pc |-> "awaitFetch", shown |-> LoadingList])
    /\ NavigateTo("view", "none", localStorage, formId, validationMessage)
    /\ last' = Ran("view", TRUE, TRUE, "none")
    /\ UNCHANGED <<localStorage, now, searchInput>>

\* handleView once getClients() has returned clients
ViewAmong(clients, clientId) ==
    IF ~HasId(clients, clientId)
    THEN /\ last' = Ran("view", FALSE, FALSE, "notfound")
         /\ UNCHANGED <<localStorage, now, page, formId, validationMessage,
                        searchInput, rows, tableHidden, detail, exerciseList,
                        fetches>>
    ELSE DisplayClient(FindById(clients, clientId))

HandleView(clientId) == ViewAmong(GetClients, clientId)

\* Call i writes list and returns.
ShowExercises(i, list) ==
    /\ exerciseList' = list
    /\ fetches' = [fetches EXCEPT ![i] = [pc |-> "done", shown |-> list]]

\* Call i of fetchSuggestedExercises resumes after `await fetch(...)`:
\* the request was rejected, or answered with response.ok = ok.
FetchSettles(i, rejected, ok) ==
    /\ i \in 1..Len(fetches)
    /\ fetches[i].pc = "awaitFetch"
    /\ IF rejected \/ ~ok
       THEN ShowExercises(i, ErrorList)
       ELSE /\ fetches' = [fetches EXCEPT ![i].pc = "awaitJson"]
            /\ UNCHANGED exerciseList
    /\ last' = Ran("fetchSettles", FALSE, ~rejected /\ ok, "none")
    /\ UNCHANGED <<localStorage, now, page, formId, validationMessage,
                   searchInput, rows, tableHidden, detail>>

\* Call i resumes after `await response.json()`: the body did not parse,
\* or parsed to data.
JsonSettles(i, rejected, data) ==
    /\ i \in 1..Len(fetches)
    /\ fetches[i].pc = "awaitJson"
    /\ ShowExercises(i, IF rejected THEN ErrorList ELSE RenderExercises(data))
    /\ last' = Ran("jsonSettles", FALSE, ~rejected, "none")
    /\ UNCHANGED <<localStorage, now, page, formId, validationMessage,
                   searchInput, rows, tableHidden, detail>>

----------------------------------------------------------------------------
(* Inputs *)

\* Values of the visible form inputs.
Names == {Empty, Str1(" "), Str1("a")}

GoodEmail == <<"a", "@", "b", ".", "c">>

Emails == {Empty, GoodEmail, Str2("a", "b"), <<"a", "@", "b">>,
           <<"a", "@", ".", "c">>, <<"a", " ", "@", "b", ".", "c">>}

GoodDate == <<"2", "0", "2", "4", "-", "0", "1", "-", "0", "1">>

Dates == {Empty, GoodDate}

Fields(name, email, date) ==
    [id |-> Empty, fullName |-> name, age |-> Empty, gender |-> Empty,
     email |-> email, phone |-> Empty, fitnessGoal |-> Str1("g"),
     startDate |-> date]

\* Each input varies over its values with the other two acceptable, and
\* one candidate has nothing filled in.
FormInputs ==
    {Fields(n, GoodEmail, GoodDate) : n \in Names}
        \cup {Fields(Str1("a"), e, GoodDate) : e \in Emails}
        \cup {Fields(Str1("a"), GoodEmail, d) : d \in Dates}
        \cup {Fields(Empty, Empty, Empty)}

\* Ids a handler can be called with: those the clock can have produced, and
\* "0", which it never produces.
IdArgs == {NumToString(t) : t \in 0..MaxClock}

Queries == {Empty, Str1("A"), Str1("B")}

Exercise(name, description, hasDescription) ==
    [name |-> name, description |-> description, hasDescription |-> hasDescription]

Body(hasResults, results) == [hasResults |-> hasResults, results |-> results]

JsonBodies ==
    {Body(FALSE, <<>>), Body(TRUE, <<>>),
     Body(TRUE, <<Exercise(Str1("x"), <<"<", "p", ">", "y", "<", "/", "p", ">">>, TRUE)>>),
     Body(TRUE, <<Exercise(Str1("x"), Empty, FALSE)>>)}

----------------------------------------------------------------------------
(* Specifications *)

\* The page once DOMContentLoaded has run navigateTo('list') on a profile
\* with nothing stored.
Init ==
    /\ localStorage = {}
    /\ now = 1
    /\ page = "list"
    /\ formId = Empty
    /\ validationMessage = ""
    /\ searchInput = Empty
    /\ rows = <<>>
    /\ tableHidden = TRUE
    /\ detail = [fullName |-> Empty, email |-> Empty, phone |-> Empty,
                 goal |-> Empty, startDate |-> Empty, age |-> Empty,
                 gender |-> Empty]
    /\ exerciseList = <<>>
    /\ fetches = <<>>
    /\ last = Ran("init", FALSE, FALSE, "none")

NavigateList == Navigate("list", "none")

NavigateNew == Navigate("form", "new")

Submit == \E fields \in FormInputs : HandleFormSubmit(fields)

Edit == \E id \in IdArgs : HandleEdit(id)

Delete == \E id \in IdArgs : \E confirmed \in BOOLEAN : HandleDelete(id, confirmed)

Keyup == \E q \in Queries : \E hasQuery \in BOOLEAN : SearchKeyup(q, hasQuery)

View == \E id \in IdArgs : HandleView(id)

FetchDone ==
    \E i \in 1..MaxFetches : \E rejected \in BOOLEAN : \E ok \in BOOLEAN :
        FetchSettles(i, rejected, ok)

JsonDone ==
    \E i \in 1..MaxFetches : \E rejected \in BOOLEAN : \E data \in JsonBodies :
        JsonSettles(i, rejected, data)

\* The store with its form, edit and delete handlers.
Next ==
    \/ Tick
    \/ NavigateList
    \/ NavigateNew
    \/ Submit
    \/ Edit
    \/ Delete

Spec == Init /\ [][Next]_vars

\* The pages as a user drives them: an event comes from an element of the
\* page that is shown, a row event from a row that is rendered.
ListInputs == {Fields(n, GoodEmail, GoodDate) : n \in {Str1("a"), Str2("A", "b")}}

RowIds == {rows[i].id : i \in 1..Len(rows)}

AddButton == page = "list" /\ NavigateNew

BackButton == page # "list" /\ NavigateList

SubmitListed ==
    page = "form" /\ \E fields \in ListInputs : HandleFormSubmit(fields)

RowEdit == page = "list" /\ \E id \in RowIds : HandleEdit(id)

RowDelete ==
    page = "list" /\ \E id \in RowIds : \E confirmed \in BOOLEAN :
        HandleDelete(id, confirmed)

RowView == page = "list" /\ \E id \in RowIds : HandleView(id)

ListKeyup == page = "list" /\ Keyup

ListSearchClick == page = "list" /\ SearchClick

NextList ==
    \/ Tick
    \/ AddButton
    \/ BackButton
    \/ SubmitListed
    \/ RowEdit
    \/ RowDelete
    \/ ListKeyup
    \/ ListSearchClick

SpecList == Init /\ [][NextList]_vars

\* The detail page: clients are stored and viewed, and the fetches settle
\* at any later time.
NextView ==
    \/ Tick
    \/ AddButton
    \/ BackButton
    \/ SubmitListed
    \/ RowDelete
    \/ RowView
    \/ FetchDone
    \/ JsonDone

SpecView == Init /\ [][NextView]_vars

----------------------------------------------------------------------------
(* Vocabulary of the properties *)

Ids(clients) == {clients[i].id : i \in 1..Len(clients)}

RECURSIVE TrimLeft(_)
TrimLeft(s) ==
    IF s # <<>> /\ IsSpace(Head(s)) THEN TrimLeft(Tail(s)) ELSE s

RECURSIVE TrimRight(_)
TrimRight(s) ==
    IF s # <<>> /\ IsSpace(s[Len(s)]) THEN TrimRight(SubSeq(s, 1, Len(s) - 1)) ELSE s

Trim(s) == TrimRight(TrimLeft(s))

\* The Validator's three rules.
SatisfiesValidator(record) ==
    /\ Trim(record.fullName) # <<>>
    /\ record.email # <<>> /\ EmailRegexTest(record.email)
    /\ record.startDate # <<>>

\* A candidate with a missing fullName, email or startDate, or a malformed
\* email.
FailsValidation(candidate) ==
    \/ candidate.fullName = <<>>
    \/ candidate.email = <<>>
    \/ candidate.startDate = <<>>
    \/ ~EmailRegexTest(candidate.email)

\* What a form submit of fields hands to the store.
Candidate(fields) == [fields EXCEPT !.id = formId]

\* The stored sequence after the step.
GetClientsAfter == GetClientsOf(localStorage')

\* after holds x under id, and differs from before in the records with
\* that id only.
ReplacedOnly(before, after, id, x) ==
    /\ HasId(after, id)
    /\ FindById(after, id) = x
    /\ FindById(after, id).id = id
    /\ Len(after) = Len(before)
    /\ \A i \in 1..Len(before) :
          /\ after[i].id = before[i].id
          /\ before[i].id # id => after[i] = before[i]

\* after is before with one record appended, and the first record with the
\* id of that record is x but for its id.
AppendedAndFound(before, after, x) ==
    /\ Len(after) = Len(before) + 1
    /\ SubSeq(after, 1, Len(before)) = before
    /\ FindById(after, after[Len(after)].id)
          = [x EXCEPT !.id = after[Len(after)].id]

RECURSIVE Without(_, _)
\* The records of clients whose id is not id, in order.
Without(clients, id) ==
    IF clients = <<>> THEN <<>>
    ELSE IF Head(clients).id = id THEN Without(Tail(clients), id)
    ELSE <<Head(clients)>> \o Without(Tail(clients), id)

\* after has no record with id and is before without those records; it is
\* before when before has none.
Removed(before, after, id) ==
    /\ ~HasId(after, id)
    /\ after = Without(before, id)
    /\ ~HasId(before, id) => after = before

SameLetter(c, d) == c = d \/ {c, d} \in {{"a", "A"}, {"b", "B"}}

\* q occurs in name, letter case ignored.
ContainsIgnoringCase(name, q) ==
    \E i \in 0..(Len(name) - Len(q)) :
        \A k \in 1..Len(q) : SameLetter(name[i + k], q[k])

RECURSIVE Matching(_, _)
\* The records of clients whose fullName contains q, in order.
Matching(clients, q) ==
    IF clients = <<>> THEN <<>>
    ELSE IF ContainsIgnoringCase(Head(clients).fullName, q)
    THEN <<Head(clients)>> \o Matching(Tail(clients), q)
    ELSE Matching(Tail(clients), q)

----------------------------------------------------------------------------
(* Properties *)

\* C1: no two stored client records have the same id, whatever creates,
\* updates and deletes ran, two creations within one clock value included.
StoredIdsAreDistinct ==
    \A i, j \in 1..Len(GetClients) :
        i # j => GetClients[i].id # GetClients[j].id

\* C2: every stored record satisfies the Validator: a fullName that is
\* non-empty after trimming, an email matching the pattern, a startDate.
StoredRecordsSatisfyValidator ==
    \A i \in 1..Len(GetClients) : SatisfiesValidator(GetClients[i])

\* C3: a form submit whose candidate fails validation leaves the stored
\* sequence as it was, sets a validation message and does not navigate.
RejectedSubmitHasNoEffect ==
    [][\A fields \in FormInputs :
          (/\ last'.op = "submit"
           /\ FailsValidation(Candidate(fields))
           /\ HandleFormSubmit(fields))
              => /\ localStorage' = localStorage
                 /\ validationMessage' # ""
                 /\ page' = page
                 /\ rows' = rows
                 /\ last'.alert = "none"]_vars

C3Witness ==
    /\ last.op = "submit" /\ ~last.ok
    /\ validationMessage = MsgEmail
    /\ HasId(GetClients, formId)
    /\ page = "form"

\* C4: a form submit with a non-empty client-id and a valid candidate
\* whose id matches no stored record is not reported as a successful
\* update, and leaves the stored sequence unchanged.
UpdateOfMissingIdIsNotFound ==
    [][(last'.op = "submit" /\ formId # <<>> /\ ~HasId(GetClients, formId))
          => \A fields \in FormInputs :
                (~FailsValidation(Candidate(fields)) /\ HandleFormSubmit(fields))
                    => /\ last'.alert # "updated"
                       /\ GetClientsAfter = GetClients]_vars

\* C5: an update of a stored id with a valid candidate x makes findById
\* return x, id unchanged, and keeps the number of records, their order
\* and every record with another id.
UpdateReplacesOnlyItsRecord ==
    [][(last'.op = "submit" /\ formId # <<>> /\ HasId(GetClients, formId))
          => \A fields \in FormInputs :
                (~FailsValidation(Candidate(fields)) /\ HandleFormSubmit(fields))
                    => ReplacedOnly(GetClients, GetClientsAfter, formId,
                                    Candidate(fields))]_vars

C5Witness ==
    /\ last.op = "submit" /\ last.ok /\ last.hit /\ last.alert = "updated"
    /\ Len(GetClients) = 2
    /\ GetClients[1].id = formId
    /\ GetClients[2].id # formId
    /\ GetClients[1].fullName # GetClients[2].fullName

\* C6: after a confirmed delete of an id no record has that id; deleting
\* an id that is not stored raises no error and leaves the stored sequence
\* unchanged; the records with other ids stay, in their order.
DeleteIsIdempotent ==
    [][\A id \in IdArgs :
          (last'.op = "delete" /\ last'.ok /\ HandleDelete(id, TRUE))
              => /\ Removed(GetClients, GetClientsAfter, id)
                 /\ last'.alert = "deleted"]_vars

C6Witness ==
    /\ last.op = "delete" /\ last.ok /\ ~last.hit
    /\ Len(GetClients) = 2
    /\ GetClients[1].id # GetClients[2].id

\* C7: a create of a valid candidate appends exactly one record, keeps the
\* records stored before, and findById of the id it assigned returns the
\* candidate with that id.
CreateAppendsAndIsFound ==
    [][\A fields \in FormInputs :
          (/\ last'.op = "submit"
           /\ formId = <<>>
           /\ ~FailsValidation(fields)
           /\ HandleFormSubmit(fields))
              => AppendedAndFound(GetClients, GetClientsAfter, fields)]_vars

\* C8: a search renders exactly the stored records whose fullName contains
\* the query, letter case ignored, in stored order, all of them for the
\* empty query; rendering and searching leave the storage as it was.
SearchRendersMatchingRecords ==
    [][last'.op \in {"search", "navigate"}
          => /\ localStorage' = localStorage
             /\ last'.op = "search"
                  => /\ rows' = Matching(GetClientsAfter, searchInput')
                     /\ searchInput' = <<>> => rows' = GetClientsAfter]_vars

C8Witness ==
    /\ last.op = "search"
    /\ searchInput = Str1("B")
    /\ Len(GetClients) = 2
    /\ Len(rows) = 1
    /\ rows[1].fullName = Str2("A", "b")

\* C9: on the detail page the suggestion list shows what the fetch issued
\* by the view now open last wrote; an earlier view's fetch that settles
\* late does not change it.
SuggestionsAreOfTheOpenView ==
    (page = "view" /\ fetches # <<>>)
        => exerciseList = fetches[Len(fetches)].shown

\* C10: whenever the list page is shown, its rows are the stored records
\* matching the text in the search input.
ListMatchesSearchInput ==
    page = "list" => rows = Matching(GetClients, searchInput)

====
